---- MODULE Spec2Model ----
(***************************************************************************)
(* A model of suricata-update's rule core: the rule parser                 *)
(* (suricata/update/rule.py), the flowbit resolver (same file) and the     *)
(* matchers and filters (suricata/update/matchers.py).                     *)
(*                                                                         *)
(* Specifications, each over the same variables:                           *)
(*   SpecResolve    FlowbitResolver.resolve, enable_flowbit_dependencies   *)
(*   SpecParseFile  parse_fileobj                                          *)
(*   SpecFilter     ModifyRuleFilter.run, DropRuleFilter.run               *)
(*   SpecMatch      parse_rule_match                                       *)
(*   SpecParse      parse, Rule.format                                     *)
(*   SpecOptEnd     find_opt_end                                           *)
(*   SpecRule       Rule.__eq__, Rule.__hash__                             *)
(*                                                                         *)
(* Text is modelled at character level: a Python str is a sequence of      *)
(* one-character strings, indexed from 0 by the helpers below exactly as   *)
(* Python indexes it.  Python values are tagged tuples (see "Values").     *)
(***************************************************************************)
EXTENDS Integers, Sequences, FiniteSets, TLC

VARIABLES
    op,        \* the operation that produced this state ("init" at the start)
    rules,     \* the live Rule objects (the values of the rule map, in order)
    before,    \* the Rule objects as they were when the last operation was called
    resolver,  \* FlowbitResolver.enabled of the resolver object in use
    result,    \* what the last operation returned (or the exception it raised)
    passes,    \* number of resolve invocations (recursive ones included) of the last call
    input      \* the argument(s) of the last operation

vars == <<op, rules, before, resolver, result, passes, input>>

(***************************************************************************)
(* Python str helpers (0-based, like the source)                           *)
(***************************************************************************)
MinOf(S) == CHOOSE x \in S : \A y \in S : x <= y
MaxOf(S) == CHOOSE x \in S : \A y \in S : x >= y

\* c.isspace() for the characters of the model's alphabet
IsSpace(c) == c \in {" ", "\t", "\n", "\r"}

\* s[a:b] for 0 <= a, 0 <= b
Slice(s, a, b) == SubSeq(s, a + 1, IF b < Len(s) THEN b ELSE Len(s))

\* s[a:] for 0 <= a
SliceFrom(s, a) == SubSeq(s, a + 1, Len(s))

\* F(x), with x evaluated once and named: a local variable of the source
Bind(x, F(_)) == CHOOSE r \in {F(v) : v \in {x}} : TRUE

\* s.find(sub): the lowest index where sub occurs, -1 when it does not
Find(s, sub) ==
    Bind(<<s, sub>>, LAMBDA a :
        LET hits == {i \in 0..(Len(a[1]) - Len(a[2])) :
                        SubSeq(a[1], i + 1, i + Len(a[2])) = a[2]}
        IN  IF hits = {} THEN -1 ELSE MinOf(hits))

\* sub in s
Contains(s, sub) == Find(s, sub) > -1

StartsWith(s, p) == Len(p) <= Len(s) /\ SubSeq(s, 1, Len(p)) = p
EndsWith(s, p) == Len(p) <= Len(s) /\ SubSeq(s, Len(s) - Len(p) + 1, Len(s)) = p

\* s.strip(), s.rstrip()
Strip(s) ==
    Bind(s, LAMBDA t :
        Bind({i \in 1..Len(t) : ~IsSpace(t[i])}, LAMBDA keep :
            IF keep = {} THEN <<>> ELSE SubSeq(t, MinOf(keep), MaxOf(keep))))

RStrip(s) ==
    Bind(s, LAMBDA t :
        Bind({i \in 1..Len(t) : ~IsSpace(t[i])}, LAMBDA keep :
            IF keep = {} THEN <<>> ELSE SubSeq(t, 1, MaxOf(keep))))

\* s.split(sep): the list of pieces
RECURSIVE Split(_, _)
Split(s, sep) ==
    Bind(s, LAMBDA t :
        Bind(Find(t, sep), LAMBDA i :
            IF i < 0 THEN <<t>>
            ELSE <<Slice(t, 0, i)>> \o Split(SliceFrom(t, i + Len(sep)), sep)))

\* s.split(sep, 1): one piece, or two
Split1(s, sep) ==
    Bind(s, LAMBDA t :
        Bind(Find(t, sep), LAMBDA i :
            IF i < 0 THEN <<t>>
            ELSE <<Slice(t, 0, i), SliceFrom(t, i + Len(sep))>>))

Digits == <<"0", "1", "2", "3", "4", "5", "6", "7", "8", "9">>
IsDigit(c) == \E d \in 1..10 : Digits[d] = c
DigitVal(c) == (CHOOSE d \in 1..10 : Digits[d] = c) - 1

\* s is [+-]?[0-9]+ : what int(s) accepts once s is stripped (underscores and
\* non-ASCII digits are outside the model's alphabet)
IsIntText(s) ==
    LET body == IF Len(s) > 0 /\ s[1] \in {"+", "-"} THEN Tail(s) ELSE s
    IN  Len(body) > 0 /\ \A i \in 1..Len(body) : IsDigit(body[i])

RECURSIVE DigitsValue(_)
DigitsValue(s) ==
    IF s = <<>> THEN 0
    ELSE 10 * DigitsValue(SubSeq(s, 1, Len(s) - 1)) + DigitVal(s[Len(s)])

IntOfText(s) ==
    IF s[1] = "-" THEN 0 - DigitsValue(Tail(s))
    ELSE IF s[1] = "+" THEN DigitsValue(Tail(s))
    ELSE DigitsValue(s)

(***************************************************************************)
(* Values.  A Python value is a tuple whose first element is its type, so  *)
(* that values of different types compare unequal:                         *)
(*   None <<"None">>, bool <<"bool", b>>, int <<"int", n>>,                *)
(*   str <<"str", chars>>, list <<"list", values>>.                        *)
(***************************************************************************)
None == <<"None">>
PyBool(b) == <<"bool", b>>
PyInt(n) == <<"int", n>>
PyStr(s) == <<"str", s>>
PyList(l) == <<"list", l>>

IsStr(v) == v[1] = "str"
IsList(v) == v[1] = "list"

\* bool(v)
Truthy(v) ==
    CASE v[1] = "None" -> FALSE
      [] v[1] = "bool" -> v[2]
      [] v[1] = "int" -> v[2] # 0
      [] OTHER -> v[2] # <<>>

\* the field names of a Rule, and the literals the source compares against
k_enabled == <<"e", "n", "a", "b", "l", "e", "d">>
k_action == <<"a", "c", "t", "i", "o", "n">>
k_proto == <<"p", "r", "o", "t", "o">>
k_source_addr == <<"s", "o", "u", "r", "c", "e", "_", "a", "d", "d", "r">>
k_source_port == <<"s", "o", "u", "r", "c", "e", "_", "p", "o", "r", "t">>
k_direction == <<"d", "i", "r", "e", "c", "t", "i", "o", "n">>
k_dest_addr == <<"d", "e", "s", "t", "_", "a", "d", "d", "r">>
k_dest_port == <<"d", "e", "s", "t", "_", "p", "o", "r", "t">>
k_group == <<"g", "r", "o", "u", "p">>
k_gid == <<"g", "i", "d">>
k_sid == <<"s", "i", "d">>
k_rev == <<"r", "e", "v">>
k_msg == <<"m", "s", "g">>
k_flowbits == <<"f", "l", "o", "w", "b", "i", "t", "s">>
k_metadata == <<"m", "e", "t", "a", "d", "a", "t", "a">>
k_references == <<"r", "e", "f", "e", "r", "e", "n", "c", "e", "s">>
k_classtype == <<"c", "l", "a", "s", "s", "t", "y", "p", "e">>
k_priority == <<"p", "r", "i", "o", "r", "i", "t", "y">>
k_noalert == <<"n", "o", "a", "l", "e", "r", "t">>
k_features == <<"f", "e", "a", "t", "u", "r", "e", "s">>
k_raw == <<"r", "a", "w">>
k_header == <<"h", "e", "a", "d", "e", "r">>
k_reference == <<"r", "e", "f", "e", "r", "e", "n", "c", "e">>
s_ja3 == <<"j", "a", "3">>
s_noalert_semi == <<"n", "o", "a", "l", "e", "r", "t", ";">>
s_inject == <<" ", "n", "o", "a", "l", "e", "r", "t", ";">>
s_sid_colon == <<"s", "i", "d", ":">>
s_drop == <<"d", "r", "o", "p">>
s_comment == <<"#", " ">>
s_alert == <<"a", "l", "e", "r", "t">>
s_log == <<"l", "o", "g">>
s_pass == <<"p", "a", "s", "s">>
s_activate == <<"a", "c", "t", "i", "v", "a", "t", "e">>
s_dynamic == <<"d", "y", "n", "a", "m", "i", "c">>
s_reject == <<"r", "e", "j", "e", "c", "t">>
s_sdrop == <<"s", "d", "r", "o", "p">>

\* rule.py: actions
actions == {s_alert, s_log, s_pass, s_activate, s_dynamic, s_drop, s_reject, s_sdrop}

(***************************************************************************)
(* class Rule(dict).  A Rule is its dictionary d and its instance          *)
(* attributes a.  Rule defines __getattr__ and no __setattr__: reading     *)
(* rule.x gives the instance attribute x when one was assigned and the     *)
(* dictionary entry otherwise; assigning rule.x = v sets the instance      *)
(* attribute and leaves the dictionary entry as it was.                    *)
(***************************************************************************)
NoAttrs == [k \in {} |-> None]

\* Rule.__init__
Rule(enabled, action, group) ==
    [d |-> [k \in {k_enabled, k_action, k_proto, k_source_addr, k_source_port,
                   k_direction, k_dest_addr, k_dest_port, k_group, k_gid, k_sid,
                   k_rev, k_msg, k_flowbits, k_metadata, k_references,
                   k_classtype, k_priority, k_noalert, k_features, k_raw} |->
              CASE k = k_enabled -> enabled
                [] k = k_action -> action
                [] k = k_group -> group
                [] k = k_gid -> PyInt(1)
                [] k \in {k_rev, k_priority} -> PyInt(0)
                [] k \in {k_flowbits, k_metadata, k_references, k_features} -> PyList(<<>>)
                [] k = k_noalert -> PyBool(FALSE)
                [] OTHER -> None],
     a |-> NoAttrs]

\* rule[k] = v
SetItem(rule, k, v) ==
    [rule EXCEPT !.d = [x \in DOMAIN rule.d \cup {k} |-> IF x = k THEN v ELSE rule.d[x]]]

\* rule.k = v
SetAttr(rule, k, v) ==
    [rule EXCEPT !.a = [x \in DOMAIN rule.a \cup {k} |-> IF x = k THEN v ELSE rule.a[x]]]

\* rule.k (Rule.__getattr__ when no instance attribute k exists)
GetAttr(rule, k) == IF k \in DOMAIN rule.a THEN rule.a[k] ELSE rule.d[k]

(***************************************************************************)
(* Rule.__eq__ (dict's, which Rule inherits) and Rule.__hash__             *)
(***************************************************************************)
\* v == w for two values: a bool compares with an int as the number it is, lists
\* compare element by element
RECURSIVE ValueEq(_, _)
ValueEq(v, w) ==
    LET IsNum(x) == x[1] \in {"bool", "int"}
        Num(x) == IF x[1] = "int" THEN x[2] ELSE IF x[2] THEN 1 ELSE 0
    IN  IF IsNum(v) /\ IsNum(w) THEN Num(v) = Num(w)
        ELSE IF IsList(v) /\ IsList(w)
        THEN /\ Len(v[2]) = Len(w[2])
             /\ \A i \in 1..Len(v[2]) : ValueEq(v[2][i], w[2][i])
        ELSE v = w

\* rule == other: the dictionaries hold the same keys with equal values; the
\* instance attributes take no part
rule_eq(rule, other) ==
    /\ DOMAIN rule.d = DOMAIN other.d
    /\ \A k \in DOMAIN rule.d : ValueEq(rule.d[k], other.d[k])

\* The printable ASCII characters from the space (code 32) to the underscore
\* (95), and from a (97) to the tilde (126); the grave accent is no character of
\* the model
AsciiLow ==
    <<
       " ", "!", "\"", "#", "$", "%", "&", "'", "(", ")", "*", "+", ",", "-", ".", "/",
       "0", "1", "2", "3", "4", "5", "6", "7", "8", "9", ":", ";", "<", "=", ">", "?",
       "@", "A", "B", "C", "D", "E", "F", "G", "H", "I", "J", "K", "L", "M", "N", "O",
       "P", "Q", "R", "S", "T", "U", "V", "W", "X", "Y", "Z", "[", "\\", "]", "^", "_" >>

AsciiHigh ==
    <<
       "a", "b", "c", "d", "e", "f", "g", "h", "i", "j", "k", "l", "m", "n", "o", "p",
       "q", "r", "s", "t", "u", "v", "w", "x", "y", "z", "{", "|", "}", "~" >>

\* ord(c)
Ord(c) ==
    CASE c = "\t" -> 9
      [] c = "\n" -> 10
      [] c = "\r" -> 13
      [] \E i \in DOMAIN AsciiLow : AsciiLow[i] = c ->
            31 + CHOOSE i \in DOMAIN AsciiLow : AsciiLow[i] = c
      [] OTHER -> 96 + CHOOSE i \in DOMAIN AsciiHigh : AsciiHigh[i] = c

\* str.__hash__: a function of the characters, one number for each text and the
\* same number for some different texts; here a polynomial of the character
\* codes, kept to 16 bits
RECURSIVE str_hash(_)
str_hash(s) ==
    IF s = <<>> THEN 0
    ELSE (31 * str_hash(SubSeq(s, 1, Len(s) - 1)) + Ord(s[Len(s)])) % 65536

\* Mutant of rule_hash: the enabled entry hashed with the raw text
rule_hash_with_enabled(rule) ==
    (str_hash(rule.d[k_raw][2]) + (IF Truthy(rule.d[k_enabled]) THEN 1 ELSE 0)) % 65536

\* Rule.__hash__: self["raw"].__hash__()
rule_hash(rule) == str_hash(rule.d[k_raw][2])

(***************************************************************************)
(* Rule.format                                                             *)
(***************************************************************************)
\* The end of a match of ( *sid\: *[0-9]+\;) that starts at index pos of s, or -1.
\* Both " *" take every space there is (what follows is no space), and
\* "[0-9]+" every digit (what follows is no digit), so there is one candidate.
SidMatchEnd(s, pos) ==
    LET n == Len(s)
        SkipSpaces(p) == MinOf({q \in p..n : q = n \/ s[q + 1] # " "})
        SkipDigits(p) == MinOf({q \in p..n : q = n \/ ~IsDigit(s[q + 1])})
        a == SkipSpaces(pos)
        b == SkipSpaces(a + 4)
        c == SkipDigits(b)
    IN  IF /\ Slice(s, a, a + 4) = s_sid_colon
           /\ c > b
           /\ c < n
           /\ s[c + 1] = ";"
        THEN c + 1
        ELSE -1

\* re.sub(r'( *sid\: *[0-9]+\;)', r' noalert;\1', s), from index pos on
RECURSIVE SubNoalertFrom(_, _)
SubNoalertFrom(s, pos) ==
    IF pos >= Len(s) THEN <<>>
    ELSE LET e == SidMatchEnd(s, pos)
         IN  IF e < 0 THEN <<s[pos + 1]>> \o SubNoalertFrom(s, pos + 1)
             ELSE s_inject \o Slice(s, pos, e) \o SubNoalertFrom(s, e)

\* Whether format assigns self.raw
FormatInjects(rule) ==
    /\ Truthy(GetAttr(rule, k_noalert))
    /\ ~Contains(GetAttr(rule, k_raw)[2], s_noalert_semi)

\* The rule object after rule.format(): format assigns self.raw, an instance
\* attribute, when it injects noalert
FormatEffect(rule) ==
    IF FormatInjects(rule)
    THEN SetAttr(rule, k_raw, PyStr(SubNoalertFrom(GetAttr(rule, k_raw)[2], 0)))
    ELSE rule

\* The text rule.format() returns
format(rule) ==
    LET after == FormatEffect(rule)
    IN  (IF Truthy(GetAttr(after, k_enabled)) THEN <<>> ELSE s_comment)
        \o GetAttr(after, k_raw)[2]

(***************************************************************************)
(* rule_pattern and find_opt_end                                           *)
(***************************************************************************)
\* rule_pattern.match(buf):
\*   ^(?P<enabled>#)*[\s#]*(?P<raw>(?P<header>[^()]+)\((?P<options>.*)\)$)
\* hashes: the leading "#"s; e: the end of the leading run of [\s#]; p: the first
\* parenthesis.  The header ends at p whatever the groups before it take, and has
\* to hold one character: when the run reaches p, the regex engine gives the
\* run's last character back to the header, from [\s#]* if that matched one and
\* from (#)* otherwise.
rule_pattern(buf) ==
    Bind(buf, LAMBDA b :
        LET n == Len(b)
            NoMatch == [ok |-> FALSE, enabled |-> None, raw |-> <<>>, header |-> <<>>,
                        options |-> <<>>]
        IN  Bind(<<MinOf({i \in 0..n : i = n \/ b[i + 1] # "#"}),
                   MinOf({i \in 0..n : i = n \/ ~(IsSpace(b[i + 1]) \/ b[i + 1] = "#")}),
                   MinOf({i \in 0..n : i = n \/ b[i + 1] \in {"(", ")"}})>>,
                 LAMBDA at :
            LET hashes == at[1]
                e == at[2]
                p == IF at[3] = n THEN -1 ELSE at[3]
                q == IF p > e THEN e ELSE e - 1
                taken == IF p > e \/ e > hashes THEN hashes ELSE hashes - 1
                ok == /\ p >= 1
                      /\ b[p + 1] = "("
                      /\ q >= 0
                      /\ n - 1 > p
                      /\ b[n] = ")"
                      /\ \A i \in (p + 2)..(n - 1) : b[i] # "\n"
            IN  IF ok
                THEN [ok |-> TRUE,
                      enabled |-> IF taken >= 1 THEN PyStr(<<"#">>) ELSE None,
                      raw |-> SliceFrom(b, q),
                      header |-> Slice(b, q, p),
                      options |-> Slice(b, p + 1, n - 1)]
                ELSE NoMatch))

\* What a call ends with: a returned int, or an exception
IntResult(n) == [exc |-> "", v |-> n]
IntRaise(e) == [exc |-> e, v |-> -1]

\* find_opt_end's loop, entered with the given offset.  options[k] with k out of
\* range raises IndexError; a negative k in range counts from the end.
RECURSIVE find_opt_end_from(_, _)
find_opt_end_from(options, offset) ==
    Bind(<<options, offset>>, LAMBDA a :
        Bind(Find(SliceFrom(a[1], a[2]), <<";">>), LAMBDA i :
            LET n == Len(a[1])
                k == a[2] + i - 1
            IN  IF k >= n \/ k < 0 - n THEN IntRaise("IndexError")
                ELSE IF a[1][(IF k >= 0 THEN k ELSE n + k) + 1] = "\\"
                THEN find_opt_end_from(a[1], a[2] + 2)
                ELSE IntResult(a[2] + i)))

find_opt_end(options) == find_opt_end_from(options, 0)

(***************************************************************************)
(* parse                                                                   *)
(***************************************************************************)
NoRule == [d |-> NoAttrs, a |-> NoAttrs]

\* What parse ends with: a Rule, None, or an exception
Returned(rule) == [kind |-> "rule", exc |-> "", rule |-> rule]
ReturnedNone == [kind |-> "none", exc |-> "", rule |-> NoRule]
Raised(e) == [kind |-> "raise", exc |-> e, rule |-> NoRule]

\* The header loop of parse (lines 205-237), with `left` fields still to read:
\* the tokens in order, or ok = FALSE where the source returns None
RECURSIVE header_tokens(_, _)
header_tokens(rem, left) ==
    IF left = 0 THEN [ok |-> TRUE, toks |-> <<>>]
    ELSE Bind(rem, LAMBDA r :
        IF r = <<>> THEN [ok |-> FALSE, toks |-> <<>>]
        ELSE LET bracket == r[1] = "["
             IN  Bind(IF bracket THEN Find(r, <<"]">>) ELSE Find(r, <<" ">>), LAMBDA found :
                 LET end == IF bracket THEN found + 1 ELSE found
                     token == IF found < 0 THEN r ELSE Strip(Slice(r, 0, end))
                     rest == IF found < 0 THEN <<>> ELSE Strip(SliceFrom(r, end))
                 IN  IF bracket /\ found < 0 THEN [ok |-> FALSE, toks |-> <<>>]
                     ELSE Bind(header_tokens(rest, left - 1), LAMBDA more :
                              [ok |-> more.ok, toks |-> <<token>> \o more.toks])))

\* list.append(x) on rule[k]; a value that is no list has no append
AppendItem(rule, k, x) ==
    IF IsList(rule.d[k])
    THEN [exc |-> "", rule |-> SetItem(rule, k, PyList(Append(rule.d[k][2], x)))]
    ELSE [exc |-> "AttributeError", rule |-> rule]

\* The branch of parse's option loop for one option name (lines 261-280)
store_option(rule, name, val) ==
    CASE name \in {k_gid, k_sid, k_rev} ->
            IF val = None THEN [exc |-> "TypeError", rule |-> rule]
            ELSE IF ~IsIntText(Strip(val[2])) THEN [exc |-> "ValueError", rule |-> rule]
            ELSE [exc |-> "", rule |-> SetItem(rule, name, PyInt(IntOfText(Strip(val[2]))))]
      [] name = k_metadata ->
            IF val = None THEN [exc |-> "AttributeError", rule |-> rule]
            ELSE LET parts == Split(val[2], <<",">>)
                 IN  [exc |-> "",
                      rule |-> SetItem(rule, name,
                          PyList(rule.d[name][2]
                                 \o [i \in 1..Len(parts) |-> PyStr(Strip(parts[i]))]))]
      [] name = k_flowbits ->
            LET r1 == SetItem(rule, k_flowbits, PyList(Append(rule.d[k_flowbits][2], val)))
            IN  [exc |-> "",
                 rule |-> IF Truthy(val) /\ Contains(val[2], k_noalert)
                          THEN SetItem(r1, k_noalert, PyBool(TRUE))
                          ELSE r1]
      [] name = k_noalert -> [exc |-> "", rule |-> SetItem(rule, k_noalert, PyBool(TRUE))]
      [] name = k_reference -> AppendItem(rule, k_references, val)
      [] name = k_msg ->
            [exc |-> "",
             rule |-> SetItem(rule, name,
                 IF Truthy(val) /\ StartsWith(val[2], <<"\"">>) /\ EndsWith(val[2], <<"\"">>)
                 THEN PyStr(Slice(val[2], 1, Len(val[2]) - 1))
                 ELSE val)]
      [] OTHER -> [exc |-> "", rule |-> SetItem(rule, name, val)]

\* One option text (lines 255-283): split it on its first colon, store it, and
\* record the ja3 feature
parse_option(rule, option) ==
    Bind(Split1(option, <<":">>), LAMBDA pieces :
        Bind(IF Len(pieces) = 2 THEN Strip(pieces[1]) ELSE option, LAMBDA name :
            Bind(store_option(rule, name,
                              IF Len(pieces) = 2 THEN PyStr(Strip(pieces[2])) ELSE None),
                 LAMBDA stored :
                IF stored.exc # "" THEN stored
                ELSE IF StartsWith(name, s_ja3)
                THEN AppendItem(stored.rule, k_features, PyStr(s_ja3))
                ELSE stored)))

\* The option loop (lines 248-283)
RECURSIVE parse_options(_, _)
parse_options(rule, options) ==
    Bind(<<rule, options>>, LAMBDA a :
        IF a[2] = <<>> THEN [exc |-> "", rule |-> a[1]]
        ELSE Bind(find_opt_end(a[2]), LAMBDA index :
            IF index.exc # "" THEN [exc |-> index.exc, rule |-> a[1]]
            ELSE IF index.v < 0 THEN [exc |-> "NoEndOfOptionError", rule |-> a[1]]
            ELSE Bind(parse_option(a[1], Strip(Slice(a[2], 0, index.v))), LAMBDA one :
                     IF one.exc # "" THEN one
                     ELSE parse_options(one.rule, Strip(SliceFrom(a[2], index.v + 1))))))

\* parse(buf, group), buf a str
parse(buf, group) ==
    Bind(rule_pattern(Strip(buf)), LAMBDA m :
    Bind(Strip(m.header), LAMBDA header :
    Bind(header_tokens(header, 7), LAMBDA fields :
        LET enabled == m.enabled # PyStr(<<"#">>)
            decoder == Len(Split(header, <<" ">>)) = 1
            action == IF decoder THEN header ELSE fields.toks[1]
            r0 == Rule(PyBool(enabled), None, group)
            r1 == IF decoder THEN r0
                  ELSE SetItem(SetItem(SetItem(SetItem(SetItem(r0,
                           k_proto, PyStr(fields.toks[2])),
                           k_source_addr, PyStr(fields.toks[3])),
                           k_source_port, PyStr(fields.toks[4])),
                           k_dest_addr, PyStr(fields.toks[6])),
                           k_dest_port, PyStr(fields.toks[7]))
            r2 == SetItem(SetItem(SetItem(r1,
                      k_action, PyStr(action)),
                      k_direction, IF decoder THEN None ELSE PyStr(fields.toks[5])),
                      k_header, PyStr(header))
        IN  IF ~m.ok THEN ReturnedNone
            ELSE IF ~decoder /\ ~fields.ok THEN ReturnedNone
            ELSE IF action \notin actions THEN ReturnedNone
            ELSE Bind(parse_options(r2, m.options), LAMBDA opts :
                LET r3 == IF opts.rule.d[k_msg] = None
                          THEN SetItem(opts.rule, k_msg, PyStr(<<>>))
                          ELSE opts.rule
                IN  IF opts.exc # "" THEN Raised(opts.exc)
                    ELSE IF ~Truthy(r3.d[k_sid]) THEN Raised("BadSidError")
                    ELSE Returned(SetItem(r3, k_raw, PyStr(Strip(m.raw))))))))

(***************************************************************************)
(* parse_fileobj.  A line of the file object is a str or a bytes object:   *)
(* [bytes |-> BOOLEAN, text |-> its characters (bytes)].  InvalidByte      *)
(* stands for a byte that is no UTF-8 (0xff); every other byte of the      *)
(* model's alphabet is ASCII and decodes to itself.                        *)
(***************************************************************************)
InvalidByte == "0xff"

\* line.decode() succeeds
Decodes(line) == \A i \in 1..Len(line.text) : line.text[i] # InvalidByte

\* The line after lines 307-311: a bytes line that decodes becomes a str; one that
\* does not stays bytes, the exception swallowed
decoded(line) ==
    IF line.bytes /\ Decodes(line) THEN [bytes |-> FALSE, text |-> line.text] ELSE line

\* The loop of parse_fileobj from line i on, with the buffer and the rules so
\* far.  bytes.endswith(str) raises TypeError, outside any try.
RECURSIVE parse_fileobj_from(_, _, _, _, _)
parse_fileobj_from(lines, group, i, buf, rs) ==
    IF i > Len(lines) THEN [exc |-> "", rules |-> rs]
    ELSE Bind(<<decoded(lines[i]), buf, rs>>, LAMBDA a :
        LET line == a[1]
        IN  IF line.bytes THEN [exc |-> "TypeError", rules |-> <<>>]
            ELSE Bind(RStrip(line.text), LAMBDA stripped :
                IF EndsWith(stripped, <<"\\">>)
                THEN parse_fileobj_from(lines, group, i + 1,
                         a[2] \o Slice(stripped, 0, Len(stripped) - 1) \o <<" ">>, a[3])
                ELSE Bind(parse(a[2] \o line.text, group), LAMBDA one :
                         parse_fileobj_from(lines, group, i + 1, <<>>,
                             IF one.kind = "rule" THEN Append(a[3], one.rule) ELSE a[3]))))

parse_fileobj(lines, group) == parse_fileobj_from(lines, group, 1, <<>>, <<>>)

(***************************************************************************)
(* matchers.py: ModifyRuleFilter.run and DropRuleFilter.run.  What a run   *)
(* ends with: exc, the exception it raised or ""; rule, the rule it        *)
(* returned; same, whether that is the very object it was given; after,    *)
(* the rule it was given as the call leaves it.                            *)
(***************************************************************************)
\* pattern.sub(repl, text) for a pattern that is a literal text and a repl without
\* group references: every occurrence, left to right, none overlapping
RECURSIVE ReplaceAll(_, _, _)
ReplaceAll(text, pattern, repl) ==
    Bind(text, LAMBDA s :
        Bind(Find(s, pattern), LAMBDA i :
            IF i < 0 THEN s
            ELSE Slice(s, 0, i) \o repl \o ReplaceAll(SliceFrom(s, i + Len(pattern)), pattern, repl)))

ModifyRuleFilter_run(rule, pattern, repl) ==
    Bind(FormatEffect(rule), LAMBDA after :
        Bind(parse(ReplaceAll(format(rule), pattern, repl), GetAttr(after, k_group)),
             LAMBDA parsed :
            CASE parsed.kind = "none" ->
                    [exc |-> "", rule |-> after, same |-> TRUE, after |-> after]
              [] parsed.kind = "raise" ->
                    [exc |-> parsed.exc, rule |-> NoRule, same |-> FALSE, after |-> after]
              [] OTHER ->
                    [exc |-> "", rule |-> parsed.rule, same |-> FALSE, after |-> after]))

\* \w, for the ASCII characters
WordChars ==
    {"a", "b", "c", "d", "e", "f", "g", "h", "i", "j", "k", "l", "m", "n", "o", "p", "q",
     "r", "s", "t", "u", "v", "w", "x", "y", "z", "A", "B", "C", "D", "E", "F", "G", "H",
     "I", "J", "K", "L", "M", "N", "O", "P", "Q", "R", "S", "T", "U", "V", "W", "X", "Y",
     "Z", "_"} \cup {Digits[d] : d \in DOMAIN Digits}

\* re.sub("^\w+", "drop", raw)
sub_leading_word(raw) ==
    Bind(raw, LAMBDA s :
        Bind(MinOf({i \in 0..Len(s) : i = Len(s) \/ s[i + 1] \notin WordChars}), LAMBDA n :
            IF n = 0 THEN s ELSE s_drop \o SliceFrom(s, n)))

\* parse is called without a group; None has no attribute to assign
DropRuleFilter_run(rule) ==
    Bind(parse(sub_leading_word(GetAttr(rule, k_raw)[2]), None), LAMBDA drop_rule :
        CASE drop_rule.kind = "none" ->
                [exc |-> "AttributeError", rule |-> NoRule, same |-> FALSE, after |-> rule]
          [] drop_rule.kind = "raise" ->
                [exc |-> drop_rule.exc, rule |-> NoRule, same |-> FALSE, after |-> rule]
          [] OTHER ->
                [exc |-> "",
                 rule |-> SetAttr(drop_rule.rule, k_enabled, GetAttr(rule, k_enabled)),
                 same |-> FALSE, after |-> rule])

(***************************************************************************)
(* matchers.py: the parse class methods of the matchers and                *)
(* parse_rule_match.  A matcher is [kind |-> its class, arg |-> what its   *)
(* constructor was given]; NoMatcher stands for None.                      *)
(***************************************************************************)
s_re == <<"r", "e", ":">>
s_filename == <<"f", "i", "l", "e", "n", "a", "m", "e", ":">>
s_group_colon == <<"g", "r", "o", "u", "p", ":">>
s_rules == <<".", "r", "u", "l", "e", "s">>

NoMatcher == [kind |-> "None", arg |-> <<>>]

AllRuleMatcher_parse(buf) ==
    IF Strip(buf) = <<"*">> THEN [kind |-> "AllRuleMatcher", arg |-> <<>>] ELSE NoMatcher

\* One entry of IdRuleMatcher.parse: the (generatorId, signatureId) it appends,
\* or <<>> where int() raises
id_entry(entry) ==
    Bind(Split1(Strip(entry), <<":">>), LAMBDA parts :
        IF \E i \in 1..Len(parts) : ~IsIntText(Strip(parts[i])) THEN <<>>
        ELSE IF Len(parts) = 1 THEN <<1, IntOfText(Strip(parts[1]))>>
        ELSE <<IntOfText(Strip(parts[1])), IntOfText(Strip(parts[2]))>>)

IdRuleMatcher_parse(buf) ==
    Bind(Split(buf, <<",">>), LAMBDA entries :
        Bind([i \in 1..Len(entries) |-> id_entry(entries[i])], LAMBDA ids :
            IF \E i \in 1..Len(ids) : ids[i] = <<>> THEN NoMatcher
            ELSE [kind |-> "IdRuleMatcher", arg |-> ids]))

\* Whether re.compile accepts the pattern, from index i on, inside depth open
\* groups, atom telling whether a repeat may follow.  The patterns of the model are
\* written with letters, digits, spaces, ".", ":", ",", "(", ")", "[", "]" and "*":
\* a ")" needs an open group, a "*" something to repeat, a "[" a "]" after at least
\* one character, and every group has to be closed.
RECURSIVE re_compiles_from(_, _, _, _)
re_compiles_from(p, i, depth, atom) ==
    IF i >= Len(p) THEN depth = 0
    ELSE CASE p[i + 1] = "(" -> re_compiles_from(p, i + 1, depth + 1, FALSE)
           [] p[i + 1] = ")" -> depth > 0 /\ re_compiles_from(p, i + 1, depth - 1, TRUE)
           [] p[i + 1] = "*" -> atom /\ re_compiles_from(p, i + 1, depth, FALSE)
           [] p[i + 1] = "[" ->
                Bind(Find(SliceFrom(p, i + 2), <<"]">>), LAMBDA close :
                    close >= 0 /\ re_compiles_from(p, i + close + 3, depth, TRUE))
           [] OTHER -> re_compiles_from(p, i + 1, depth, TRUE)

re_compiles(patternstr) == Bind(patternstr, LAMBDA p : re_compiles_from(p, 0, 0, FALSE))

ReRuleMatcher_parse(buf) ==
    IF StartsWith(buf, s_re)
    THEN Bind(Strip(Split1(buf, <<":">>)[2]), LAMBDA patternstr :
             IF re_compiles(patternstr)
             THEN [kind |-> "ReRuleMatcher", arg |-> patternstr]
             ELSE NoMatcher)
    ELSE NoMatcher

FilenameMatcher_parse(buf) ==
    IF StartsWith(buf, s_filename)
    THEN [kind |-> "FilenameMatcher", arg |-> Strip(Split1(buf, <<":">>)[2])]
    ELSE NoMatcher

GroupMatcher_parse(buf) ==
    IF StartsWith(buf, s_group_colon)
    THEN [kind |-> "GroupMatcher", arg |-> Strip(Split1(buf, <<":">>)[2])]
    ELSE IF EndsWith(buf, s_rules)
    THEN [kind |-> "GroupMatcher", arg |-> Strip(buf)]
    ELSE NoMatcher

\* The first matcher a parse gives, in the order of the source
parse_rule_match(match) ==
    Bind(match, LAMBDA buf :
        Bind(<<AllRuleMatcher_parse(buf), IdRuleMatcher_parse(buf), ReRuleMatcher_parse(buf),
               FilenameMatcher_parse(buf), GroupMatcher_parse(buf)>>, LAMBDA tried :
            IF \A i \in 1..5 : tried[i] = NoMatcher THEN NoMatcher
            ELSE tried[MinOf({i \in 1..5 : tried[i] # NoMatcher})]))

(***************************************************************************)
(* class FlowbitResolver.  The rule map is the sequence of its values, in  *)
(* the dictionary's order; a list of rules (self.enabled, the returned     *)
(* list) is a sequence of positions in that sequence, since its elements   *)
(* are the rule objects themselves.                                        *)
(***************************************************************************)
s_set == <<"s", "e", "t">>
s_setx == <<"s", "e", "t", "x">>
s_unset == <<"u", "n", "s", "e", "t">>
s_toggle == <<"t", "o", "g", "g", "l", "e">>
s_isset == <<"i", "s", "s", "e", "t">>
s_isnotset == <<"i", "s", "n", "o", "t", "s", "e", "t">>

\* Mutant of setters: the verb unset forgotten
setters_without_unset == {s_set, s_setx, s_toggle}

setters == {s_set, s_setx, s_unset, s_toggle}
getters == {s_isset, s_isnotset}

\* parse_flowbit: (option, value); None has no split
parse_flowbit(flowbit) ==
    IF ~IsStr(flowbit) THEN [exc |-> "AttributeError", option |-> <<>>, value |-> None]
    ELSE LET tokens == Split1(flowbit[2], <<",">>)
         IN  [exc |-> "",
              option |-> tokens[1],
              value |-> IF Len(tokens) = 1 THEN None ELSE PyStr(tokens[2])]

\* rule.flowbits
flowbits_of(rule) == GetAttr(rule, k_flowbits)[2]

\* rule.enabled, as a condition
is_enabled(rule) == Truthy(GetAttr(rule, k_enabled))

\* Mutant of get_required_flowbits: the test "option in self.getters" forgotten
get_required_flowbits_any_verb(rules_arg) ==
    Bind(rules_arg, LAMBDA rs :
    LET on == {i \in 1..Len(rs) : is_enabled(rs[i])}
        all == UNION {{<<i, j>> : j \in 1..Len(flowbits_of(rs[i]))} : i \in on}
        fb(ij) == parse_flowbit(flowbits_of(rs[ij[1]])[ij[2]])
    IN  IF \E ij \in all : fb(ij).exc # ""
        THEN [exc |-> "AttributeError", required |-> {}]
        ELSE [exc |-> "", required |-> {fb(ij).value : ij \in all}])

\* get_required_flowbits: the names the enabled rules read.  It changes nothing,
\* so it raises exactly when some flowbit it maps over cannot be parsed.
get_required_flowbits(rules_arg) ==
    Bind(rules_arg, LAMBDA rs :
    LET on == {i \in 1..Len(rs) : is_enabled(rs[i])}
        all == UNION {{<<i, j>> : j \in 1..Len(flowbits_of(rs[i]))} : i \in on}
        fb(ij) == parse_flowbit(flowbits_of(rs[ij[1]])[ij[2]])
    IN  IF \E ij \in all : fb(ij).exc # ""
        THEN [exc |-> "AttributeError", required |-> {}]
        ELSE [exc |-> "",
              required |-> {fb(ij).value : ij \in {x \in all : fb(x).option \in getters}}])

\* set_required_flowbits, from flowbit j of the rule at position i on; todo holds
\* the positions of the rules that were disabled when the loop began, enabled the
\* list built so far.  An exception leaves the flags set so far in place.
RECURSIVE set_required_from(_, _, _, _, _, _)
set_required_from(rs, required, todo, i, j, enabled) ==
    Bind(<<rs, enabled>>, LAMBDA a :
        IF i > Len(a[1]) THEN [exc |-> "", rules |-> a[1], enabled |-> a[2]]
        ELSE IF i \notin todo \/ j > Len(flowbits_of(a[1][i]))
        THEN set_required_from(a[1], required, todo, i + 1, 1, a[2])
        ELSE Bind(parse_flowbit(flowbits_of(a[1][i])[j]), LAMBDA fb :
            IF fb.exc # "" THEN [exc |-> fb.exc, rules |-> a[1], enabled |-> a[2]]
            ELSE IF fb.option \in setters /\ fb.value \in required
            THEN set_required_from(
                     [a[1] EXCEPT ![i] = SetAttr(a[1][i], k_enabled, PyBool(TRUE))],
                     required, todo, i, j + 1, Append(a[2], i))
            ELSE set_required_from(a[1], required, todo, i, j + 1, a[2])))

set_required_flowbits(rs, required) ==
    Bind(<<rs, required>>, LAMBDA a :
        Bind({i \in 1..Len(a[1]) : ~is_enabled(a[1][i])}, LAMBDA todo :
            set_required_from(a[1], a[2], todo, 1, 1, <<>>)))

\* resolve, as invocation number n of a call: the rules and self.enabled after
\* it, what it returns, and the number of invocations made
RECURSIVE resolve_from(_, _, _)
resolve_from(rs, self_enabled, n) ==
    Bind(<<rs, self_enabled, n>>, LAMBDA a :
        Bind(get_required_flowbits(a[1]), LAMBDA required :
            IF required.exc # ""
            THEN [exc |-> required.exc, rules |-> a[1], self_enabled |-> a[2],
                  ret |-> <<>>, passes |-> a[3]]
            ELSE Bind(set_required_flowbits(a[1], required.required), LAMBDA enabled :
                IF enabled.exc # ""
                THEN [exc |-> enabled.exc, rules |-> enabled.rules,
                      self_enabled |-> a[2], ret |-> <<>>, passes |-> a[3]]
                ELSE IF enabled.enabled # <<>>
                THEN resolve_from(enabled.rules, a[2] \o enabled.enabled, a[3] + 1)
                ELSE [exc |-> "", rules |-> a[1], self_enabled |-> a[2],
                      ret |-> a[2], passes |-> a[3]])))

\* Mutant of resolve: one more invocation after the pass that enabled nothing
resolve_with_extra_pass(rs, self_enabled) ==
    Bind(resolve_from(rs, self_enabled, 1), LAMBDA first :
        IF first.exc # "" THEN first
        ELSE resolve_from(first.rules, first.self_enabled, first.passes + 1))

resolve(rs, self_enabled) == resolve_from(rs, self_enabled, 1)

(***************************************************************************)
(* Rule lines the specifications draw their rules from                     *)
(***************************************************************************)
\* "alert tcp any any -> any any "
s_header == <<"a", "l", "e", "r", "t", " ", "t", "c", "p", " ", "a", "n", "y", " ",
              "a", "n", "y", " ", "-", ">", " ", "a", "n", "y", " ", "a", "n", "y", " ">>

\* "<name>:<val>; " and "<name>; "
OptionText(name, val) == name \o <<":">> \o val \o <<";", " ">>
BareOptionText(name) == name \o <<";", " ">>

\* "flowbits:<verb>,<name>; "
FlowbitText(verb, name) == OptionText(k_flowbits, verb \o <<",">> \o name)

\* "[# ]<header>(<options>sid:<sid>;)"
RuleLine(prefix, header, options, sid) ==
    prefix \o header \o <<"(">> \o options \o s_sid_colon \o <<Digits[sid + 1]>> \o <<";", ")">>

(***************************************************************************)
(* Specification SpecResolve: a rule map, a FlowbitResolver, and the calls *)
(* resolver.resolve(rulemap), enable_flowbit_dependencies(rulemap) and     *)
(* FlowbitResolver().                                                      *)
(***************************************************************************)
\* Largest number of rules in the rule map
MaxRules == 3

\* The flowbits options a rule of the rule map may carry: none; a getter (with a
\* one-token flowbit); a setter; a setter with a getter on another name (a chain);
\* two setters on one name; a flowbits option without a value
FlowbitOptions ==
    { <<>>,
      FlowbitText(s_isnotset, <<"a">>) \o OptionText(k_flowbits, k_noalert),
      FlowbitText(s_unset, <<"a">>),
      FlowbitText(s_set, <<"a">>) \o FlowbitText(s_isset, <<"b">>),
      FlowbitText(s_setx, <<"b">>) \o FlowbitText(s_toggle, <<"b">>),
      BareOptionText(k_flowbits) }

\* A rule of the map is one of these: commented out or not, with one of the options
RuleChoices == {<<>>, s_comment} \X FlowbitOptions

\* The rule parse gives for each position i of the map (sid i) and each choice,
\* as a table of <<i, choice, rule>>
ParsedRules ==
    {<<i, c, parse(RuleLine(c[1], s_header, c[2], i), None).rule>> :
        i \in 1..MaxRules, c \in RuleChoices}

RuleFor(i, c) == (CHOOSE e \in ParsedRules : e[1] = i /\ e[2] = c)[3]

ResolveOps == {"resolve", "enable_flowbit_dependencies"}

InitResolve ==
    /\ op = "init"
    /\ \E n \in 0..MaxRules : \E choice \in [1..n -> RuleChoices] :
           rules = [i \in 1..n |-> RuleFor(i, choice[i])]
    /\ before = rules
    /\ resolver = <<>>
    /\ result = [exc |-> "", ret |-> <<>>]
    /\ passes = 0
    /\ input = <<>>

\* resolver.resolve(rulemap) on the resolver in use
Resolve ==
    \E r \in {resolve(rules, resolver)} :
        /\ op' = "resolve"
        /\ before' = rules
        /\ input' = resolver
        /\ rules' = r.rules
        /\ resolver' = r.self_enabled
        /\ result' = [exc |-> r.exc, ret |-> r.ret]
        /\ passes' = r.passes

\* enable_flowbit_dependencies(rulemap): a resolver of its own
EnableFlowbitDependencies ==
    \E r \in {resolve(rules, <<>>)} :
        /\ op' = "enable_flowbit_dependencies"
        /\ before' = rules
        /\ input' = <<>>
        /\ rules' = r.rules
        /\ resolver' = resolver
        /\ result' = [exc |-> r.exc, ret |-> r.ret]
        /\ passes' = r.passes

\* resolver = FlowbitResolver(): FlowbitResolver.__init__
NewResolver ==
    /\ op' = "FlowbitResolver"
    /\ resolver' = <<>>
    /\ before' = rules
    /\ input' = <<>>
    /\ result' = [exc |-> "", ret |-> <<>>]
    /\ passes' = 0
    /\ UNCHANGED rules

NextResolve == Resolve \/ EnableFlowbitDependencies \/ NewResolver

SpecResolve == InitResolve /\ [][NextResolve]_vars

(***************************************************************************)
(* Claims about the flowbit resolver (checked under SpecResolve)           *)
(***************************************************************************)
\* The last operation was a resolve, and it returned
ResolveReturned == op \in ResolveOps /\ result.exc = ""

\* The verbs of the claims
SetterVerbs == {s_set, s_setx, s_unset, s_toggle}
GetterVerbs == {s_isset, s_isnotset}

\* The names rule r uses with one of the verbs: the values of its flowbits whose
\* verb is one of them.  A flowbits option without a value has no verb.
NamesWith(r, verbs) ==
    {parse_flowbit(fb).value :
        fb \in {f \in {flowbits_of(r)[j] : j \in 1..Len(flowbits_of(r))} :
                   IsStr(f) /\ parse_flowbit(f).option \in verbs}}

\* The positions of the enabled (disabled) rules of a rule map
EnabledIn(rs) == {i \in 1..Len(rs) : is_enabled(rs[i])}
DisabledIn(rs) == {i \in 1..Len(rs) : ~is_enabled(rs[i])}

\* The names the rules at the given positions read
ReadBy(rs, at) == UNION {NamesWith(rs[i], GetterVerbs) : i \in at}

\* C1: when resolve returns, no rule is still disabled and sets (set, setx,
\* unset, toggle) a name that an enabled rule reads (isset, isnotset).
C1_FixedPoint ==
    ResolveReturned =>
        \A i \in DisabledIn(rules) :
            NamesWith(rules[i], SetterVerbs) \cap ReadBy(rules, EnabledIn(rules)) = {}

\* C1 witness: a resolve that enabled a rule returned and left disabled a rule
\* that sets a name (one that no enabled rule reads)
C1_Witness ==
    /\ ResolveReturned
    /\ passes >= 2
    /\ \E i \in DisabledIn(rules) : NamesWith(rules[i], SetterVerbs) # {}

\* The rules a resolve may enable, from the rules enabled at the call: the least
\* set closed under "sets a name that a rule of the set reads"
RECURSIVE DependencyClosure(_, _)
DependencyClosure(rs, on) ==
    LET more == {i \in 1..Len(rs) : NamesWith(rs[i], SetterVerbs) \cap ReadBy(rs, on) # {}}
    IN  IF more \subseteq on THEN on ELSE DependencyClosure(rs, on \cup more)

C3_Idempotent ==
    [][(ResolveReturned /\ op' \in ResolveOps) =>
          /\ EnabledIn(rules') = EnabledIn(rules)
          /\ result'.exc = ""
          /\ result'.ret = <<>>]_vars

\* C4: every pass of a resolve but the last enables a disabled rule, so a resolve
\* makes at most (number of rules disabled at the call) + 1 passes.
C4_PassesBounded ==
    op \in ResolveOps =>
        /\ passes >= 1
        /\ passes <= Cardinality(DisabledIn(before)) - Cardinality(DisabledIn(rules)) + 1
        /\ passes <= Cardinality(DisabledIn(before)) + 1

\* C4 witness: a resolve that made as many passes as the bound allows, more than two
C4_Witness ==
    /\ ResolveReturned
    /\ passes >= 3
    /\ passes = Cardinality(DisabledIn(before)) + 1

\* The positions in the list a resolve returned, and the list has none twice
ReturnedPositions == {result.ret[j] : j \in 1..Len(result.ret)}
ReturnedOnce ==
    \A j, k \in 1..Len(result.ret) : result.ret[j] = result.ret[k] => j = k

\* C14: the list a resolve on a resolver that has enabled nothing yet returns is
\* the set of the rules the call turned from disabled to enabled, each of them
\* once; no rule enabled at the call is in the list or is disabled by the call.
C14_ReturnedExactlyEnabled ==
    (ResolveReturned /\ input = <<>>) =>
        /\ ReturnedPositions = EnabledIn(rules) \ EnabledIn(before)
        /\ ReturnedOnce
        /\ EnabledIn(before) \subseteq EnabledIn(rules)

\* The same without "each of them once", which holds
C14_ReturnedSetIsEnabled ==
    (ResolveReturned /\ input = <<>>) =>
        /\ ReturnedPositions = EnabledIn(rules) \ EnabledIn(before)
        /\ EnabledIn(before) \subseteq EnabledIn(rules)

(***************************************************************************)
(* Specification SpecParseFile: parse_fileobj(fileobj) over a file object  *)
(* of up to MaxLines lines.                                                *)
(***************************************************************************)
MaxLines == 3

Str(text) == [bytes |-> FALSE, text |-> text]
Bytes(text) == [bytes |-> TRUE, text |-> text]

\* What line i of the file can be; a rule on line i has sid i
FileLines(i) ==
    LET good == RuleLine(<<>>, s_header, <<>>, i) \o <<"\n">>
    IN  << Str(good),
           Bytes(good),
           Bytes(<<InvalidByte, "\n">>),
           Str(s_comment \o k_msg \o <<"\n">>),
           Str(s_alert \o <<" ", "(">> \o s_sid_colon \o <<Digits[i + 1], ")", "\n">>),
           Str(s_alert \o <<" ", "(">> \o OptionText(k_rev, <<Digits[i + 1]>>) \o <<")", "\n">>),
           Str(s_comment \o <<"\\", "\n">>),
           Str(<<"\n">>) >>

InitParseFile ==
    /\ \E n \in 0..MaxLines : \E choice \in [1..n -> DOMAIN FileLines(1)] :
           input = [i \in 1..n |-> FileLines(i)[choice[i]]]
    /\ op = "init"
    /\ result = [exc |-> "", rules |-> <<>>]
    /\ rules = <<>>
    /\ before = <<>>
    /\ resolver = <<>>
    /\ passes = 0

\* rules = parse_fileobj(fileobj)
ParseFileobj ==
    /\ op = "init"
    /\ op' = "parse_fileobj"
    /\ \E r \in {parse_fileobj(input, None)} : result' = r
    /\ UNCHANGED <<input, rules, before, resolver, passes>>

NextParseFile == ParseFileobj

SpecParseFile == InitParseFile /\ [][NextParseFile]_vars

\* The logical lines of a file: a line ending in a backslash is joined, without
\* the backslash, to the line after it.  A logical line holding a line that
\* cannot be read as text is bad, hence <<InvalidByte>>, which parses to nothing.
RECURSIVE LogicalLines(_, _, _)
LogicalLines(lines, i, buf) ==
    IF i > Len(lines) THEN <<>>
    ELSE LET text == IF Decodes(lines[i]) THEN lines[i].text ELSE <<InvalidByte>>
             stripped == RStrip(text)
         IN  IF EndsWith(stripped, <<"\\">>)
             THEN LogicalLines(lines, i + 1,
                               buf \o Slice(stripped, 0, Len(stripped) - 1) \o <<" ">>)
             ELSE <<buf \o text>> \o LogicalLines(lines, i + 1, <<>>)

RECURSIVE RecordsOf(_)
RecordsOf(logical) ==
    IF logical = <<>> THEN <<>>
    ELSE LET one == parse(Head(logical), None)
         IN  (IF one.kind = "rule" THEN <<one.rule>> ELSE <<>>) \o RecordsOf(Tail(logical))

\* C5: parse_fileobj returns normally for every sequence of lines, text or
\* bytes, and what it returns is the records of the logical lines that parse,
\* in input order: a logical line that fails to parse or raises is skipped and
\* changes nothing about the lines after it.
C5_NeverAborts ==
    op = "parse_fileobj" =>
        /\ result.exc = ""
        /\ result.rules = RecordsOf(LogicalLines(input, 1, <<>>))

\* The same for files whose lines all read as text: there the claim holds.
C5_TextNeverAborts ==
    (op = "parse_fileobj" /\ \A i \in 1..Len(input) : Decodes(input[i])) =>
        /\ result.exc = ""
        /\ result.rules = RecordsOf(LogicalLines(input, 1, <<>>))

\* A file with a bad line before a good one, read to the end
C5_TextWitness ==
    /\ op = "parse_fileobj"
    /\ Len(input) >= 2
    /\ \A i \in 1..Len(input) : Decodes(input[i])
    /\ Len(result.rules) < Len(input)
    /\ Len(result.rules) >= 1

(***************************************************************************)
(* Specification SpecFilter: one rule object, and the calls                *)
(* ModifyRuleFilter(matcher, pattern, repl).run(rule) and                  *)
(* DropRuleFilter(matcher).run(rule) on it, in any order.  rules holds the *)
(* rule object, before what it was when the last call began, input the     *)
(* pattern and repl of the last call.                                      *)
(***************************************************************************)
s_group == <<"g", ".", "r", "u", "l", "e", "s">>

\* The options of the rule: none; noalert; noalert and flowbits:noalert written
\* with a space before the semicolon
FilterOptions ==
    { <<>>,
      BareOptionText(k_noalert),
      k_noalert \o <<" ", ";", " ">>,
      k_flowbits \o <<":">> \o k_noalert \o <<" ", ";", " ">> }

FilterChoices == {<<>>, s_comment} \X FilterOptions \X {None, PyStr(s_group)}

FilterRules ==
    {<<c, parse(RuleLine(c[1], s_header, c[2], 1), c[3]).rule>> : c \in FilterChoices}

\* (pattern, repl) of a ModifyRuleFilter: alert to drop; the sid option's name
\* removed; the semicolons removed; an unknown action; a header field removed; a sid
\* that is no number; a pattern that matches nothing
Substitutions ==
    { <<s_alert, s_drop>>,
      <<s_sid_colon, <<>>>>,
      <<<<";">>, <<>>>>,
      <<s_alert, <<"b", "o", "g", "u", "s">>>>,
      <<<<"t", "c", "p", " ">>, <<>>>>,
      <<s_sid_colon, s_sid_colon \o <<"x">>>>,
      <<<<"z", "z", "z">>, <<"y">>>> }

FilterOps == {"ModifyRuleFilter.run", "DropRuleFilter.run"}

InitFilter ==
    /\ op = "init"
    /\ \E e \in FilterRules : rules = <<e[2]>>
    /\ before = rules
    /\ input = <<>>
    /\ result = [exc |-> "", rule |-> NoRule, same |-> FALSE]
    /\ resolver = <<>>
    /\ passes = 0

ModifyRun ==
    \E sub \in Substitutions : \E r \in {ModifyRuleFilter_run(rules[1], sub[1], sub[2])} :
        /\ op' = "ModifyRuleFilter.run"
        /\ input' = sub
        /\ before' = rules
        /\ rules' = <<r.after>>
        /\ result' = [exc |-> r.exc, rule |-> r.rule, same |-> r.same]
        /\ UNCHANGED <<resolver, passes>>

DropRun ==
    \E r \in {DropRuleFilter_run(rules[1])} :
        /\ op' = "DropRuleFilter.run"
        /\ input' = <<>>
        /\ before' = rules
        /\ rules' = <<r.after>>
        /\ result' = [exc |-> r.exc, rule |-> r.rule, same |-> r.same]
        /\ UNCHANGED <<resolver, passes>>

NextFilter == ModifyRun \/ DropRun

SpecFilter == InitFilter /\ [][NextFilter]_vars

(***************************************************************************)
(* GroupMatcher.match and FilenameMatcher.match, for the patterns without  *)
(* a wildcard ("*", "?", "["), which fnmatch matches by equality           *)
(***************************************************************************)
\* s.rfind(c): the highest index where the character c occurs, -1 when none
RFind(s, c) ==
    IF \E i \in 1..Len(s) : s[i] = c
    THEN MaxOf({i \in 1..Len(s) : s[i] = c}) - 1
    ELSE -1

\* os.path.basename(p)
basename(p) == SliceFrom(p, RFind(p, "/") + 1)

\* os.path.splitext(p)[0]: p up to its last dot, when the dot is in the last
\* component and a character other than a dot precedes it there
splitext_root(p) ==
    Bind(RFind(p, "."), LAMBDA dotIndex :
        IF /\ dotIndex > RFind(p, "/")
           /\ \E i \in (RFind(p, "/") + 1)..(dotIndex - 1) : p[i + 1] # "."
        THEN Slice(p, 0, dotIndex)
        ELSE p)

\* fnmatch.fnmatch(name, pat) for a pattern without a wildcard
fnmatch(name, pat) == name = pat

\* FilenameMatcher(pattern).match(rule)
FilenameMatcher_match(rule, pattern) ==
    IF GetAttr(rule, k_group) # None
    THEN fnmatch(GetAttr(rule, k_group)[2], pattern)
    ELSE FALSE

\* GroupMatcher(pattern).match(rule)
GroupMatcher_match(rule, pattern) ==
    IF GetAttr(rule, k_group) # None
    THEN \/ fnmatch(basename(GetAttr(rule, k_group)[2]), pattern)
         \/ fnmatch(splitext_root(basename(GetAttr(rule, k_group)[2])), pattern)
    ELSE FALSE

(***************************************************************************)
(* Claims about the filters (checked under SpecFilter)                     *)
(***************************************************************************)
\* What parsing the substituted text of the last ModifyRuleFilter.run gives
Reparsed ==
    parse(ReplaceAll(format(before[1]), input[1], input[2]), GetAttr(before[1], k_group))

\* C6: when the text ModifyRuleFilter.run substituted does not parse to a rule,
\* whether parse returns None or raises, run raises nothing and returns the rule
\* it was given.
C6_ModifyRecovers ==
    (op = "ModifyRuleFilter.run" /\ Reparsed.kind # "rule") =>
        /\ result.exc = ""
        /\ result.same
        /\ result.rule = rules[1]

\* The part of it the code keeps: when parse returns None, run returns the rule
\* it was given
C6_ModifyRecoversFromNone ==
    (op = "ModifyRuleFilter.run" /\ Reparsed.kind = "none") =>
        /\ result.exc = ""
        /\ result.same
        /\ result.rule = rules[1]

\* C7: a filter's run leaves every field of the rule it was given, read as
\* rule.<field>, as it was before the call.
C7_FiltersDoNotMutate ==
    op \in FilterOps =>
        \A k \in DOMAIN before[1].d : GetAttr(rules[1], k) = GetAttr(before[1], k)

\* The same for DropRuleFilter.run alone, which holds
C7_DropDoesNotMutate ==
    op = "DropRuleFilter.run" => rules = before

\* The patterns of the group and filename matchers of the claims: the group's
\* file name, the name without its extension, another name
MatchPatterns == {s_group, <<"g">>, <<"x">>}

\* C15: the rule DropRuleFilter.run returns has the action drop and the enabled
\* flag, the gid, the sid and the group of the rule it was given, so a group or
\* filename matcher answers for it as for the rule it was given.
C15_DropChangesOnlyAction ==
    (op = "DropRuleFilter.run" /\ result.exc = "") =>
        /\ GetAttr(result.rule, k_action) = PyStr(s_drop)
        /\ GetAttr(result.rule, k_enabled) = GetAttr(before[1], k_enabled)
        /\ GetAttr(result.rule, k_gid) = GetAttr(before[1], k_gid)
        /\ GetAttr(result.rule, k_sid) = GetAttr(before[1], k_sid)
        /\ GetAttr(result.rule, k_group) = GetAttr(before[1], k_group)
        /\ \A p \in MatchPatterns :
              /\ GroupMatcher_match(result.rule, p) = GroupMatcher_match(before[1], p)
              /\ FilenameMatcher_match(result.rule, p) = FilenameMatcher_match(before[1], p)

\* The same without the group and the matchers, which holds
C15_DropKeepsIdAndEnabled ==
    (op = "DropRuleFilter.run" /\ result.exc = "") =>
        /\ GetAttr(result.rule, k_action) = PyStr(s_drop)
        /\ GetAttr(result.rule, k_enabled) = GetAttr(before[1], k_enabled)
        /\ GetAttr(result.rule, k_gid) = GetAttr(before[1], k_gid)
        /\ GetAttr(result.rule, k_sid) = GetAttr(before[1], k_sid)

\* The group is all that is lost: the rule returned has no group
C15_DropLosesGroup ==
    (op = "DropRuleFilter.run" /\ result.exc = "") =>
        GetAttr(result.rule, k_group) = None

(***************************************************************************)
(* Specification SpecMatch: parse_rule_match(match) over match strings     *)
(* made of a prefix, a body and a suffix.                                  *)
(***************************************************************************)
MatchPrefixes == {<<>>, s_re, s_filename, s_group_colon, <<" ">>}

\* "*", sids and gid:sid pairs, lists of them, names, regular expressions that
\* compile and that do not
MatchBodies ==
    { <<>>, <<"*">>, <<"1">>, <<"1", ":", "2">>, <<"1", ",", " ", "2", ":", "3">>,
      <<"1", ":", "x">>, <<"1", ":", "2", ":", "3">>, <<"x">>, <<"(", "a", ")">>,
      <<"(">>, <<"[", "a">>, <<"a", "*">>, <<"*", "*">> }

MatchSuffixes == {<<>>, s_rules, <<" ">>}

InitMatch ==
    /\ op = "init"
    /\ \E a \in MatchPrefixes, b \in MatchBodies, c \in MatchSuffixes : input = a \o b \o c
    /\ result = NoMatcher
    /\ rules = <<>>
    /\ before = <<>>
    /\ resolver = <<>>
    /\ passes = 0

ParseRuleMatch ==
    /\ op = "init"
    /\ op' = "parse_rule_match"
    /\ \E m \in {parse_rule_match(input)} : result' = m
    /\ UNCHANGED <<input, rules, before, resolver, passes>>

NextMatch == ParseRuleMatch

SpecMatch == InitMatch /\ [][NextMatch]_vars

(***************************************************************************)
(* Claims about the matcher dispatch (checked under SpecMatch)             *)
(***************************************************************************)
\* The prefixes of the variants, and the variant each belongs to
VariantPrefixes ==
    {<<s_re, "ReRuleMatcher">>, <<s_filename, "FilenameMatcher">>,
     <<s_group_colon, "GroupMatcher">>}

HasVariantPrefix(m) == \E v \in VariantPrefixes : StartsWith(m, v[1])

\* m is a comma-separated list of integers sid or gid:sid
IsIdList(m) ==
    LET entries == Split(m, <<",">>)
        IsId(e) == LET parts == Split(Strip(e), <<":">>)
                   IN  Len(parts) \in {1, 2} /\ \A i \in 1..Len(parts) : IsIntText(Strip(parts[i]))
    IN  \A i \in 1..Len(entries) : IsId(entries[i])

\* The variant the dispatch order promises for m
ExpectedVariant(m) ==
    CASE Strip(m) = <<"*">> -> "AllRuleMatcher"
      [] IsIdList(m) -> "IdRuleMatcher"
      [] StartsWith(m, s_re) /\ re_compiles(Strip(SliceFrom(m, Len(s_re)))) -> "ReRuleMatcher"
      [] StartsWith(m, s_filename) -> "FilenameMatcher"
      [] StartsWith(m, s_group_colon) -> "GroupMatcher"
      [] EndsWith(m, s_rules) /\ ~HasVariantPrefix(m) -> "GroupMatcher"
      [] OTHER -> "None"

\* C8: parse_rule_match gives the first variant, in the order All, Id, Regex,
\* Filename, Group, that accepts the text, and None exactly when none accepts;
\* Group accepts the prefix group: and, without a prefix, a text ending in
\* .rules; a text with one variant's prefix never becomes another variant's matcher.
C8_Dispatch ==
    op = "parse_rule_match" =>
        /\ result.kind = ExpectedVariant(input)
        /\ \A v \in VariantPrefixes :
               StartsWith(input, v[1]) => result.kind \in {v[2], "None"}

\* The same for the texts that do not begin with re: , for which it holds
C8_DispatchWithoutRePrefix ==
    (op = "parse_rule_match" /\ ~StartsWith(input, s_re)) =>
        /\ result.kind = ExpectedVariant(input)
        /\ \A v \in VariantPrefixes :
               StartsWith(input, v[1]) => result.kind \in {v[2], "None"}

(***************************************************************************)
(* Specification SpecParse: parse(buf) over rule lines made of a prefix, a *)
(* header, up to MaxOptions options and a sid option or none.  input holds *)
(* the parts, LineOf(input) is the line.                                   *)
(***************************************************************************)
MaxOptions == 2

s_header_rest == <<" ", "t", "c", "p", " ", "a", "n", "y", " ", "a", "n", "y", " ", "-", ">",
                   " ", "a", "n", "y", " ", "a", "n", "y", " ">>

\* A header for every action of the source, one with an unknown action, and one
\* that is an action alone
ParseHeaders ==
    {a \o s_header_rest : a \in actions \cup {<<"b", "o", "g", "u", "s">>}} \cup {s_alert \o <<" ">>}

\* msg:x; an option named action, with a value and without; a flowbits option; a
\* rev; a gid that is no number; a msg with an escaped semicolon; an option named
\* enabled; noalert, written with a space before the semicolon
ParseOptions ==
    << OptionText(k_msg, <<"x">>),
       OptionText(k_action, <<"f", "o", "o">>),
       BareOptionText(k_action),
       FlowbitText(s_set, <<"a">>),
       OptionText(k_rev, <<"2">>),
       OptionText(k_gid, <<"x">>),
       OptionText(k_msg, <<"a", "\\", ";", "b">>),
       BareOptionText(k_enabled),
       k_noalert \o <<" ", ";", " ">> >>

\* The end of the options: nothing; a sid; a sid without its semicolon; after the
\* sid, one character and no semicolon; after the sid, a msg whose one semicolon
\* is escaped
ParseTails ==
    { <<>>,
      s_sid_colon \o <<"1", ";">>,
      s_sid_colon \o <<"1">>,
      s_sid_colon \o <<"1", ";", " ", "x">>,
      s_sid_colon \o <<"1", ";", " ">> \o k_msg \o <<":", "a", "\\", ";", "b">> }

RECURSIVE Concat(_)
Concat(texts) == IF texts = <<>> THEN <<>> ELSE Head(texts) \o Concat(Tail(texts))

LineOf(in) ==
    in.prefix \o in.header \o <<"(">> \o Concat([i \in DOMAIN in.options |-> ParseOptions[in.options[i]]])
        \o in.tail \o <<")">>

InitParse ==
    /\ op = "init"
    /\ \E a \in {<<>>, s_comment}, h \in ParseHeaders, c \in ParseTails :
       \E n \in 0..MaxOptions : \E o \in [1..n -> DOMAIN ParseOptions] :
           input = [prefix |-> a, header |-> h, options |-> o, tail |-> c]
    /\ result = ReturnedNone
    /\ rules = <<>>
    /\ before = <<>>
    /\ resolver = <<>>
    /\ passes = 0

\* rule = parse(buf)
Parse ==
    /\ op = "init"
    /\ op' = "parse"
    /\ \E r \in {parse(LineOf(input), None)} : result' = r
    /\ UNCHANGED <<input, rules, before, resolver, passes>>

\* text = rule.format(), on the rule parse returned
Format ==
    /\ op = "parse"
    /\ result.kind = "rule"
    /\ op' = "format"
    /\ before' = <<result.rule>>
    /\ rules' = <<FormatEffect(result.rule)>>
    /\ \E text \in {format(result.rule)} : result' = [kind |-> "text", exc |-> "", text |-> text]
    /\ UNCHANGED <<input, resolver, passes>>

NextParse == Parse \/ Format

SpecParse == InitParse /\ [][NextParse]_vars

(***************************************************************************)
(* Claims about parse (checked under SpecParse)                            *)
(***************************************************************************)
\* The action the header of the line names: its first word
HeaderAction == Split(Strip(input.header), <<" ">>)[1]

\* C9: a rule parse returns has an action that is one of the actions of the
\* source, whatever the options of the line; a line whose header names another
\* action gives None.
C9_ActionValid ==
    op = "parse" =>
        /\ result.kind = "rule" => \E a \in actions : GetAttr(result.rule, k_action) = PyStr(a)
        /\ HeaderAction \notin actions => result.kind = "none"

\* The same for the lines without an option named action, for which it holds
C9_ActionValidWithoutActionOption ==
    (op = "parse" /\ \A i \in DOMAIN input.options :
                         ~StartsWith(ParseOptions[input.options[i]], k_action)) =>
        /\ result.kind = "rule" => \E a \in actions : GetAttr(result.rule, k_action) = PyStr(a)
        /\ HeaderAction \notin actions => result.kind = "none"

\* The options of the line, as written between its parentheses
OptionsOf(in) ==
    Concat([i \in DOMAIN in.options |-> ParseOptions[in.options[i]]]) \o in.tail

\* The indices of the semicolons of s that no backslash precedes
UnescapedSemicolons(s) ==
    {i \in 0..(Len(s) - 1) : s[i + 1] = ";" /\ (i = 0 \/ s[i] # "\\")}

\* The option scan, delimiting at the first unescaped semicolon each time, comes
\* to a point where text remains with no unescaped semicolon in it, every option
\* before that point stored without an exception
RECURSIVE ScanRunsOut(_, _)
ScanRunsOut(rule, options) ==
    IF options = <<>> THEN FALSE
    ELSE IF UnescapedSemicolons(options) = {} THEN TRUE
    ELSE LET i == MinOf(UnescapedSemicolons(options))
             one == parse_option(rule, Strip(Slice(options, 0, i)))
         IN  one.exc = "" /\ ScanRunsOut(one.rule, Strip(SliceFrom(options, i + 1)))

\* C11: for a line of the rule structure with an action of the source, when the
\* option scan comes to text with no unescaped semicolon in it, parse raises
\* NoEndOfOptionError: no other exception, and no rule.
C11_UnterminatedRaises ==
    (/\ op = "parse"
     /\ HeaderAction \in actions
     /\ ScanRunsOut(Rule(PyBool(TRUE), None, None), OptionsOf(input))) =>
        result.kind = "raise" /\ result.exc = "NoEndOfOptionError"

\* What does hold: then parse gives no rule, or the text that remained ends in an
\* escaped semicolon
C11_UnterminatedWeak ==
    (/\ op = "parse"
     /\ HeaderAction \in actions
     /\ ScanRunsOut(Rule(PyBool(TRUE), None, None), OptionsOf(input))) =>
        \/ result.kind = "raise" /\ result.exc \in {"NoEndOfOptionError", "IndexError"}
        \/ Contains(input.tail, <<"\\", ";">>)

\* Whether format has to inject noalert into the rule it was given
NeedsNoalert ==
    /\ Truthy(GetAttr(before[1], k_noalert))
    /\ ~Contains(GetAttr(before[1], k_raw)[2], s_noalert_semi)

\* C12: for a line that parses, is stripped and not commented out, and needs no
\* noalert injected, format gives the line back; for a commented line, format
\* gives "# " and the header and options of the line.
C12_RoundTrip ==
    (op = "format" /\ ~NeedsNoalert) =>
        /\ input.prefix = <<>> => result.text = LineOf(input)
        /\ input.prefix = s_comment =>
               result.text = s_comment \o LineOf([input EXCEPT !.prefix = <<>>])

\* The same for the lines without an option named enabled, for which it holds
C12_RoundTripWithoutEnabledOption ==
    (/\ op = "format"
     /\ ~NeedsNoalert
     /\ \A i \in DOMAIN input.options : ~StartsWith(ParseOptions[input.options[i]], k_enabled)) =>
        /\ input.prefix = <<>> => result.text = LineOf(input)
        /\ input.prefix = s_comment =>
               result.text = s_comment \o LineOf([input EXCEPT !.prefix = <<>>])

(***************************************************************************)
(* Specification SpecRule: two Rule objects, the comparison rule == other  *)
(* with hash(rule) and hash(other), and the assignment rule.enabled = True *)
(* the flowbit resolver makes.  rules holds the two objects, result what   *)
(* the last comparison gave.                                               *)
(***************************************************************************)
\* A line is commented out or not and indented or not, has a msg option or not,
\* and comes from a rule file or from none
CompareChoices == {<<>>, s_comment, <<" ">>} \X {<<>>, OptionText(k_msg, <<"x">>)} \X {None, PyStr(s_group)}

CompareRules ==
    {<<c, parse(RuleLine(c[1], s_header, c[2], 1), c[3]).rule>> : c \in CompareChoices}

InitRule ==
    /\ op = "init"
    /\ \E e1 \in CompareRules, e2 \in CompareRules : rules = <<e1[2], e2[2]>>
    /\ before = rules
    /\ result = [eq |-> FALSE, hash |-> <<0, 0>>]
    /\ input = <<>>
    /\ resolver = <<>>
    /\ passes = 0

\* rule == other, hash(rule), hash(other)
Compare ==
    /\ op' = "compare"
    /\ result' = [eq |-> rule_eq(rules[1], rules[2]),
                  hash |-> <<rule_hash(rules[1]), rule_hash(rules[2])>>]
    /\ before' = rules
    /\ UNCHANGED <<rules, input, resolver, passes>>

\* rule.enabled = True, as set_required_flowbits does
SetEnabled ==
    /\ op' = "rule.enabled = True"
    /\ rules' = [rules EXCEPT ![1] = SetAttr(rules[1], k_enabled, PyBool(TRUE))]
    /\ before' = rules
    /\ UNCHANGED <<result, input, resolver, passes>>

NextRule == Compare \/ SetEnabled

SpecRule == InitRule /\ [][NextRule]_vars

(***************************************************************************)
(* Claims about Rule identity (checked under SpecRule)                     *)
(***************************************************************************)
RawOf(r) == r.d[k_raw]

\* C10 as stated: two rules with the same raw compare equal and have the same
\* hash, whatever their other fields; two rules with different raw are not equal.
C10_IdentityByRaw ==
    op = "compare" =>
        /\ RawOf(rules[1]) = RawOf(rules[2]) =>
               result.eq /\ result.hash[1] = result.hash[2]
        /\ RawOf(rules[1]) # RawOf(rules[2]) => ~result.eq

\* C10, amended: two rules with the same raw have the same hash, whatever their
\* other fields; two rules compare equal exactly when every dictionary field of
\* theirs is equal, so rules with the same raw and different enabled entries are
\* not equal; two rules with different raw are not equal.
C10_HashByRawEqualByFields ==
    op = "compare" =>
        /\ RawOf(rules[1]) = RawOf(rules[2]) => result.hash[1] = result.hash[2]
        /\ result.eq <=> rules[1].d = rules[2].d
        /\ rules[1].d[k_enabled] # rules[2].d[k_enabled] => ~result.eq
        /\ RawOf(rules[1]) # RawOf(rules[2]) => ~result.eq

\* Two rules with the same raw, one commented out and one not, compared: not
\* equal, the same hash
C10_Witness ==
    /\ op = "compare"
    /\ RawOf(rules[1]) = RawOf(rules[2])
    /\ rules[1].d[k_enabled] # rules[2].d[k_enabled]
    /\ ~result.eq
    /\ result.hash[1] = result.hash[2]

(***************************************************************************)
(* Specification SpecOptEnd: find_opt_end(options) over the texts of up to *)
(* MaxOptLen characters written with a letter, the semicolon and the       *)
(* backslash.                                                              *)
(***************************************************************************)
MaxOptLen == 6

OptChars == {"a", ";", "\\"}

InitOptEnd ==
    /\ op = "init"
    /\ \E n \in 0..MaxOptLen : input \in [1..n -> OptChars]
    /\ result = IntResult(0)
    /\ rules = <<>>
    /\ before = <<>>
    /\ resolver = <<>>
    /\ passes = 0

\* index = find_opt_end(options)
FindOptEnd ==
    /\ op = "init"
    /\ op' = "find_opt_end"
    /\ \E r \in {find_opt_end(input)} : result' = r
    /\ UNCHANGED <<input, rules, before, resolver, passes>>

NextOptEnd == FindOptEnd

SpecOptEnd == InitOptEnd /\ [][NextOptEnd]_vars

(***************************************************************************)
(* Claims about find_opt_end (checked under SpecOptEnd)                    *)
(***************************************************************************)
\* C13: for a text with a semicolon that no backslash precedes, find_opt_end
\* returns the index of the first such semicolon: no escaped semicolon ends an
\* option, and no unescaped one is passed over.
C13_FirstUnescaped ==
    (op = "find_opt_end" /\ UnescapedSemicolons(input) # {}) =>
        result = IntResult(MinOf(UnescapedSemicolons(input)))

\* The same for the texts without a backslash, for which it holds
C13_FirstSemicolonWithoutBackslash ==
    (/\ op = "find_opt_end"
     /\ UnescapedSemicolons(input) # {}
     /\ \A i \in 1..Len(input) : input[i] # "\\") =>
        result = IntResult(MinOf(UnescapedSemicolons(input)))
====
